---- MODULE Spec2Model ----
(***************************************************************************)
(* The batch ledger of production_app.py: the CSV file the script reloads  *)
(* on every run, the session's order draft, and one action per button      *)
(* handler (Add to List, SAVE FINAL ORDER, Move, Move ALL, SAVE CHANGES).   *)
(* Every handler starts from df = load_data() and, where the code calls    *)
(* save_data(df), ends by rewriting the file.                               *)
(*                                                                         *)
(* Cells that pandas holds as None/NaN/NaT (an empty CSV field) are the     *)
(* empty sequence <<>>; a number n in such a cell is <<n>>.  Order ids are  *)
(* sequences of characters, so that load_data's regex can be applied to    *)
(* them.  Dates are day numbers.                                            *)
(***************************************************************************)
EXTENDS Integers, Sequences, FiniteSets, TLC

\* ------------------------------------------------------------------ bounds
MaxQty == 2
MaxBatches == 2
MaxEdits == 1
MaxDay == 5
MaxHistRows == 3
MaxRuns == 2

\* --------------------------------------------------------------- constants
STAGES ==
    << "1- In Pipeline", "2- Sublimation", "3- Cutting", "4- Print / Emb.",
       "5- Stitching", "6- Checking", "7- Packing", "8- Shipped" >>

StageSet == { STAGES[i] : i \in 1..Len(STAGES) }

\* STAGES.index(s), counted from 1
StageIndex(s) == CHOOSE i \in 1..Len(STAGES) : STAGES[i] = s

\* try: curr_idx = STAGES.index(...)  except: curr_idx = 0
CurrIdx(s) == IF s \in StageSet THEN StageIndex(s) ELSE 1

NaN == <<>>

\* pd.to_numeric(..., errors='coerce').fillna(0)
to_numeric(q) == IF q = NaN THEN 0 ELSE q[1]

\* ------------------------------------------------------------------ inputs
OrderIdInputs == { <<>>, <<"7">>, <<"8", ".", "0">> }
ClientInputs == { "Nike" }
ProductInputs == { "", "Hoodie" }
ColorInputs == { "", "Black" }
ArticleInputs == { "HD-X" }
DueInputs == { 14 }
\* one of the 21 size keys of `inputs`
SizeOrder == << "M" >>
\* the stages picked in the selectboxes: the first, a middle one, Packing, Shipped
StageInputs == { STAGES[1], STAGES[3], STAGES[7], STAGES[8] }
SizeInputs == [ { SizeOrder[i] : i \in 1..Len(SizeOrder) } -> 0..MaxQty ]

\* ------------------------------------------------------------------- state
VARIABLES
    file,         \* rows of production_data_v29.csv (<<>>: no file, or no rows)
    order_draft,  \* st.session_state.order_draft
    nEdits,       \* SAVE CHANGES clicks so far (capped by MaxEdits)
    last,         \* the last handler run: its inputs, the df it loaded, its outcome
    view,         \* input and output of the last pure function applied
    runs          \* script runs of other browser sessions, each with the df it loaded

vars == << file, order_draft, nEdits, last, view, runs >>

\* -------------------------------------------------------------- sequences
RECURSIVE SumSeq(_)
SumSeq(s) == IF s = <<>> THEN 0 ELSE Head(s) + SumSeq(Tail(s))

RECURSIVE Unique(_)
\* Series.unique(): the values in order of first appearance
Unique(s) ==
    IF s = <<>> THEN <<>>
    ELSE LET u == Unique(SubSeq(s, 1, Len(s) - 1))
             x == s[Len(s)]
         IN  IF \E i \in 1..Len(u) : u[i] = x THEN u ELSE Append(u, x)

Range(s) == { s[i] : i \in 1..Len(s) }

UidsOf(df) == { df[i].uid : i \in 1..Len(df) }

\* str(uuid.uuid4())[:8]: an id no row of the table carries
NewUid(used) == CHOOSE n \in 1..(Cardinality(used) + 1) :
                    n \notin used /\ \A m \in 1..(n - 1) : m \in used

\* ------------------------------------------------------------ persistence
\* .str.replace(r'\.0$', '', regex=True)
StripDotZero(s) ==
    IF Len(s) >= 2 /\ s[Len(s) - 1] = "." /\ s[Len(s)] = "0"
    THEN SubSeq(s, 1, Len(s) - 2)
    ELSE s

\* a variant without the renaming of the old first stage
LoadRow_no_rename(r) == [r EXCEPT !.order = StripDotZero(@)]

\* Order ID without a trailing ".0"; "1- Material" renamed "1- In Pipeline"
LoadRow(r) ==
    [r EXCEPT !.order = StripDotZero(@),
              !.stage = IF @ = "1- Material" THEN STAGES[1] ELSE @]

load_data(f) == [ i \in 1..Len(f) |-> LoadRow(f[i]) ]

NoArgs ==
    [ order |-> <<>>, uid |-> 0, qty |-> 0, stage |-> "", line |-> <<>>, lines |-> <<>> ]

\* what the last handler run was given and how it ended (st.error / st.warning /
\* st.toast / st.success, and whether save_data was called)
Outcome(op, result, saved, args) ==
    [ op |-> op, result |-> result, saved |-> saved,
      order |-> args.order, uid |-> args.uid, qty |-> args.qty,
      stage |-> args.stage, line |-> args.line, lines |-> args.lines ]

Sessions == 1..MaxRuns

\* a session whose script is not running
NoRun ==
    [ pc |-> "idle", df |-> <<>>, op |-> "none", uid |-> 0, stage |-> "",
      order |-> <<>>, success |-> FALSE, at |-> 0 ]

NoRuns == [ s \in Sessions |-> NoRun ]

NoView == [ fn |-> "none", arg |-> <<>>, today |-> 0, done |-> FALSE, out |-> <<>> ]

Init ==
    /\ file = <<>>
    /\ order_draft = <<>>
    /\ nEdits = 0
    /\ last = Outcome("init", "", FALSE, NoArgs)
    /\ view = NoView
    /\ runs = NoRuns

\* ------------------------------------------------------------ Create Order
\* a variant that never raises the flag
is_duplicate_unset(df, order_id) == FALSE

is_duplicate(df, order_id) ==
    order_id # <<>> /\ \E i \in 1..Len(df) : df[i].order = order_id

is_in_list(draft, p_name, check_color, art_no) ==
    \E i \in 1..Len(draft) :
        /\ draft[i].product = p_name
        /\ draft[i].color = check_color
        /\ draft[i].article = art_no

DraftLine(p_name, check_color, art_no, size, qty, p_due_date) ==
    [ product |-> p_name, color |-> check_color, article |-> art_no,
      size |-> size, qty |-> <<qty>>, due |-> <<p_due_date>>, notes |-> "" ]

\* for size, qty in inputs.items(): if qty > 0: order_draft.append({...})
NewDraftLines(p_name, check_color, art_no, p_due_date, inputs) ==
    LET all == [ i \in 1..Len(SizeOrder) |->
                   DraftLine(p_name, check_color, art_no, SizeOrder[i],
                             inputs[SizeOrder[i]], p_due_date) ]
        Pos(l) == l.qty[1] > 0
    IN  SelectSeq(all, Pos)

AddToList(order_id, p_name, p_color, art_no, p_due_date, inputs) ==
    LET df == load_data(file)
        current_prod_total == SumSeq([ i \in 1..Len(SizeOrder) |-> inputs[SizeOrder[i]] ])
        check_color == IF p_color # "" THEN p_color ELSE "Std"
        added == NewDraftLines(p_name, check_color, art_no, p_due_date, inputs)
        args == [ NoArgs EXCEPT !.order = order_id ]
    IN  /\ IF is_duplicate(df, order_id)
           THEN /\ order_draft' = order_draft
                /\ last' = Outcome("add", "cannot_add", FALSE, args)
           ELSE IF p_name # "" /\ current_prod_total > 0
           THEN IF is_in_list(order_draft, p_name, check_color, art_no)
                THEN /\ order_draft' = order_draft
                     /\ last' = Outcome("add", "duplicate_blocked", FALSE, args)
                ELSE /\ Len(df) + Len(order_draft) + Len(added) <= MaxBatches
                     /\ order_draft' = order_draft \o added
                     /\ last' = Outcome("add", "added", FALSE, args)
           ELSE UNCHANGED << order_draft, last >>
        /\ UNCHANGED << file, nEdits, view, runs >>

\* what st.data_editor(draft_df, num_rows="dynamic") can hand back
DraftQtyEdits == { <<-1>>, <<0>> }

DraftEdits(draft) ==
    {draft}
    \cup { SubSeq(draft, 1, i - 1) \o SubSeq(draft, i + 1, Len(draft)) : i \in 1..Len(draft) }
    \cup { [draft EXCEPT ![i].qty = q] : i \in 1..Len(draft), q \in DraftQtyEdits }
    \cup { [draft EXCEPT ![i].product = ""] : i \in 1..Len(draft) }
    \cup { [draft EXCEPT ![i].color = c] : i \in 1..Len(draft), c \in { "Std", "Black" } }

\* if pd.isna(row['Product Name']) or row['Product Name'] == "" or row['Total Qty'] == 0: continue
SkipLine(row) == row.product = "" \/ row.qty = <<0>>

RECURSIVE NewRows(_, _, _, _)
NewRows(lines, order_id, client, used) ==
    IF lines = <<>> THEN <<>>
    ELSE LET row == Head(lines)
             id  == NewUid(used)
         IN  IF SkipLine(row)
             THEN NewRows(Tail(lines), order_id, client, used)
             ELSE << [ uid |-> id, order |-> order_id, client |-> client,
                       due |-> row.due, priority |-> "Normal",
                       product |-> row.product, color |-> row.color,
                       article |-> row.article, size |-> row.size,
                       qty |-> row.qty, stage |-> STAGES[1], notes |-> row.notes ] >>
                  \o NewRows(Tail(lines), order_id, client, used \cup {id})

SaveFinalOrder(order_id, client, edited_draft_df) ==
    LET df == load_data(file)
        new_rows == NewRows(edited_draft_df, order_id, client, UidsOf(df))
        args == [ NoArgs EXCEPT !.order = order_id ]
        done == [ args EXCEPT !.lines = edited_draft_df ]
    IN  /\ order_draft # <<>>
        /\ IF is_duplicate(df, order_id)
           THEN /\ UNCHANGED << file, order_draft >>
                /\ last' = Outcome("save", "cannot_save", FALSE, args)
           ELSE IF order_id = <<>>
           THEN /\ UNCHANGED << file, order_draft >>
                /\ last' = Outcome("save", "error_no_id", FALSE, args)
           ELSE IF edited_draft_df = <<>>
           THEN /\ UNCHANGED << file, order_draft >>
                /\ last' = Outcome("save", "error_empty", FALSE, args)
           ELSE IF Len(new_rows) > 0
           THEN /\ Len(df) + Len(new_rows) <= MaxBatches
                /\ file' = df \o new_rows
                /\ order_draft' = <<>>
                /\ last' = Outcome("save", "saved", TRUE, done)
           ELSE UNCHANGED << file, order_draft, last >>
        /\ UNCHANGED << nEdits, view, runs >>

\* --------------------------------------------------------- Order Dashboard
IsActive(r) == r.stage # "8- Shipped"

\* df[df['Order ID'] == selected_order]
OrderRows(df, order_id) == SelectSeq(df, LAMBDA r : r.order = order_id)

\* df['Order ID'].unique(), as a set
OrdersOf(df) == { df[i].order : i \in 1..Len(df) }

\* order_data['Product Name'] + " (" + order_data['Color'] + ")"
Display_Name(r) == << r.product, r.color >>

\* order_data['Display_Name'].unique(): one tab per product line
ProductTabs(order_data) ==
    Unique([ i \in 1..Len(order_data) |-> Display_Name(order_data[i]) ])

prod_df(order_data, p_display) ==
    SelectSeq(order_data, LAMBDA r : Display_Name(r) = p_display)

\* a variant without the filter on Shipped
active_prod_df_unfiltered(order_data, p_display) ==
    SelectSeq(order_data, LAMBDA r : Display_Name(r) = p_display)

\* prod_df[prod_df['Current Stage'] != "8- Shipped"]
active_prod_df(order_data, p_display) ==
    SelectSeq(prod_df(order_data, p_display), IsActive)

\* st.progress(prog_pct) raises unless 0 <= prog_pct <= 1
ProgressRenders(order_data) ==
    LET total_target == SumSeq([ i \in 1..Len(order_data) |-> to_numeric(order_data[i].qty) ])
        completed_qty == SumSeq([ i \in 1..Len(order_data) |->
                            IF order_data[i].stage \in { "7- Packing", "8- Shipped" }
                            THEN to_numeric(order_data[i].qty) ELSE 0 ])
    IN  total_target > 0 => (0 <= completed_qty /\ completed_qty <= total_target)

\* total_target, completed_qty, pending_qty (clamped at 0) and prog_pct of an
\* order; prog_pct is kept as the pair << numerator, denominator >>
ProgressMetrics(order_data) ==
    LET total_target == SumSeq([ i \in 1..Len(order_data) |-> to_numeric(order_data[i].qty) ])
        completed_qty == SumSeq([ i \in 1..Len(order_data) |->
                            IF order_data[i].stage \in { "7- Packing", "8- Shipped" }
                            THEN to_numeric(order_data[i].qty) ELSE 0 ])
        pending_qty == total_target - completed_qty
    IN  [ total_target |-> total_target,
          completed_qty |-> completed_qty,
          pending_qty |-> IF pending_qty < 0 THEN 0 ELSE pending_qty,
          prog_pct |-> IF total_target > 0 THEN << completed_qty, total_target >>
                       ELSE << 0, 1 >> ]

\* st.number_input("Q", min_value=1, max_value=int(qty), value=int(qty)) raises
\* when int(qty) < 1, which ends the run before anything below it is drawn
QtyInputRenders(r) == to_numeric(r.qty) >= 1

\* the rows drawn before row number `pos` of tab number `tab` (with the
\* "Show Shipped Items" boxes unticked), that row included
DrawnBefore(order_data, tab, pos) ==
    LET tabs == ProductTabs(order_data)
    IN  { r \in Range(order_data) :
            \E t \in 1..tab :
                LET rows == active_prod_df(order_data, tabs[t])
                IN  \E i \in 1..Len(rows) :
                        /\ rows[i] = r
                        /\ (t = tab => i <= pos) }

\* the selectbox offers the orders of get_sorted_active_orders(active_df)
Selectable(df, selected_order) ==
    /\ selected_order # <<>>
    /\ \E i \in 1..Len(df) : IsActive(df[i]) /\ df[i].order = selected_order

SetStage(df, uids, stage) ==
    [ i \in 1..Len(df) |-> IF df[i].uid \in uids THEN [df[i] EXCEPT !.stage = stage] ELSE df[i] ]

\* a variant that leaves the moved batch's quantity as it was
SplitRow_keeps_qty(df, row, move_qty, new_stage) ==
    df \o << [row EXCEPT !.uid = NewUid(UidsOf(df)),
                         !.qty = << move_qty >>,
                         !.stage = new_stage] >>

\* a variant whose copy keeps the whole quantity
SplitRow_full_copy(df, row, move_qty, new_stage) ==
    [ i \in 1..Len(df) |->
        IF df[i].uid = row.uid
        THEN [df[i] EXCEPT !.qty = << to_numeric(row.qty) - move_qty >>]
        ELSE df[i] ]
    \o << [row EXCEPT !.uid = NewUid(UidsOf(df)), !.stage = new_stage] >>

\* df.loc[uid, 'Total Qty'] = row qty - move_qty; new_row = row.copy() with a
\* new id, move_qty and new_stage; df = pd.concat([df, new_row])
SplitRow(df, row, move_qty, new_stage) ==
    [ i \in 1..Len(df) |->
        IF df[i].uid = row.uid
        THEN [df[i] EXCEPT !.qty = << to_numeric(row.qty) - move_qty >>]
        ELSE df[i] ]
    \o << [row EXCEPT !.uid = NewUid(UidsOf(df)),
                      !.qty = << move_qty >>,
                      !.stage = new_stage] >>

\* the page is drawn down to the Move button of row `pos` of tab `tab`
MoveOffered(df, selected_order, tab, pos) ==
    LET order_data == OrderRows(df, selected_order)
        tabs == ProductTabs(order_data)
    IN  /\ Selectable(df, selected_order)
        /\ ProgressRenders(order_data)
        /\ tab \in 1..Len(tabs)
        /\ pos \in 1..Len(active_prod_df(order_data, tabs[tab]))
        /\ \A r \in DrawnBefore(order_data, tab, pos) : QtyInputRenders(r)

\* the page is drawn down to the "Move ALL" button of tab `tab`
BulkOffered(df, selected_order, tab) ==
    LET order_data == OrderRows(df, selected_order)
        tabs == ProductTabs(order_data)
    IN  /\ Selectable(df, selected_order)
        /\ ProgressRenders(order_data)
        /\ tab \in 1..Len(tabs)
        /\ active_prod_df(order_data, tabs[tab]) # <<>>
        /\ \A r \in DrawnBefore(order_data, tab, 0) : QtyInputRenders(r)

\* a variant with the comparison turned round
MoveBlocked_inverted(new_stage, curr_idx) == StageIndex(new_stage) > curr_idx

\* if STAGES.index(new_stage) < curr_idx: st.error("Blocked.")
MoveBlocked(new_stage, curr_idx) == StageIndex(new_stage) < curr_idx

\* a variant that lets a move to the same stage through
MoveSameStage_unchecked(new_stage, row) == FALSE

\* elif new_stage == row['Current Stage']: st.toast("Change stage.")
MoveSameStage(new_stage, row) == new_stage = row.stage

Move(selected_order, tab, pos, move_qty, new_stage) ==
    LET df == load_data(file)
        order_data == OrderRows(df, selected_order)
        tabs == ProductTabs(order_data)
        rows == active_prod_df(order_data, tabs[tab])
        row == rows[pos]
        curr_idx == CurrIdx(row.stage)
        args == [ NoArgs EXCEPT !.order = selected_order, !.uid = row.uid,
                                !.qty = move_qty, !.stage = new_stage ]
    IN  /\ MoveOffered(df, selected_order, tab, pos)
        /\ move_qty \in 1..to_numeric(row.qty)
        /\ IF MoveBlocked(new_stage, curr_idx)
           THEN /\ UNCHANGED file
                /\ last' = Outcome("move", "blocked", FALSE, [args EXCEPT !.qty = 0])
           ELSE IF MoveSameStage(new_stage, row)
           THEN /\ UNCHANGED file
                /\ last' = Outcome("move", "toast", FALSE, args)
           ELSE IF move_qty = to_numeric(row.qty)
           THEN /\ file' = SetStage(df, {row.uid}, new_stage)
                /\ last' = Outcome("move", "moved", TRUE, args)
           ELSE /\ Len(df) + Len(order_draft) < MaxBatches
                /\ file' = SplitRow(df, row, move_qty, new_stage)
                /\ last' = Outcome("move", "split", TRUE, args)
        /\ UNCHANGED << order_draft, nEdits, view, runs >>

\* ids_to_move = active_prod_df['Unique ID']; df.loc[isin(ids_to_move), 'Current Stage'] = bulk_stage
BulkTarget(row, bulk_stage) == bulk_stage

\* a variant that forgets the isin(ids_to_move) mask
BulkApply_all_rows(df, ids_to_move, bulk_stage) ==
    [ i \in 1..Len(df) |-> [df[i] EXCEPT !.stage = bulk_stage] ]

BulkApply(df, ids_to_move, bulk_stage) ==
    [ i \in 1..Len(df) |->
        IF df[i].uid \in ids_to_move
        THEN [df[i] EXCEPT !.stage = BulkTarget(df[i], bulk_stage)]
        ELSE df[i] ]

BulkMove(selected_order, tab, bulk_stage) ==
    LET df == load_data(file)
        order_data == OrderRows(df, selected_order)
        tabs == ProductTabs(order_data)
        rows == active_prod_df(order_data, tabs[tab])
        ids_to_move == UidsOf(rows)
        args == [ NoArgs EXCEPT !.order = selected_order, !.line = tabs[tab],
                                !.stage = bulk_stage ]
    IN  /\ BulkOffered(df, selected_order, tab)
        /\ file' = BulkApply(df, ids_to_move, bulk_stage)
        /\ last' = Outcome("bulk", "moved", TRUE, args)
        /\ UNCHANGED << order_draft, nEdits, view, runs >>

\* ------------------------------------------------------------- Manage Data
\* a row typed into the editor: no Unique ID yet (0), Stage and Priority required
TypedRow(order_data) ==
    [ order_data[1] EXCEPT !.uid = 0, !.qty = NaN, !.due = NaN,
                           !.stage = STAGES[1], !.priority = "Normal" ]

\* what st.data_editor(order_data, num_rows="dynamic", Qty min_value=0,
\* Stage options=STAGES) can hand back
ManageEdits(order_data) ==
    {order_data}
    \cup { SubSeq(order_data, 1, i - 1) \o SubSeq(order_data, i + 1, Len(order_data)) :
             i \in 1..Len(order_data) }
    \cup { [order_data EXCEPT ![i].qty = << q >>] : i \in 1..Len(order_data), q \in 0..MaxQty }
    \cup { [order_data EXCEPT ![i].stage = s] : i \in 1..Len(order_data), s \in StageInputs }
    \cup (IF order_data = <<>> THEN {} ELSE { Append(order_data, TypedRow(order_data)) })

\* if pd.isna(row['Unique ID']) or row['Unique ID'] == "": row['Unique ID'] = uuid
RECURSIVE final_rows(_, _)
final_rows(edited_batch, used) ==
    IF edited_batch = <<>> THEN <<>>
    ELSE LET row == Head(edited_batch)
         IN  IF row.uid = 0
             THEN << [row EXCEPT !.uid = NewUid(used)] >>
                  \o final_rows(Tail(edited_batch), used \cup {NewUid(used)})
             ELSE << row >> \o final_rows(Tail(edited_batch), used)

ManageSave(order_id, edited_batch) ==
    LET df == load_data(file)
        order_data == OrderRows(df, order_id)
        old_ids == UidsOf(order_data)
        kept == SelectSeq(df, LAMBDA r : r.uid \notin old_ids)
        out == kept \o final_rows(edited_batch, UidsOf(df))
        args == [ NoArgs EXCEPT !.order = order_id ]
    IN  /\ nEdits < MaxEdits
        /\ order_data # <<>>
        /\ Len(out) + Len(order_draft) <= MaxBatches
        /\ file' = out
        /\ nEdits' = nEdits + 1
        /\ last' = Outcome("manage", "saved", TRUE, args)
        /\ UNCHANGED << order_draft, view, runs >>

\* ------------------------------------------------------------------- views
\* a variant that looks at the date before the stage
calculate_status_date_first(row, today) ==
    IF row.due # NaN /\ row.due[1] - today < 0 THEN "OVERDUE"
    ELSE IF row.due # NaN /\ row.due[1] - today <= 3 THEN "CRITICAL"
    ELSE IF row.stage = "8- Shipped" THEN "Shipped"
    ELSE IF row.stage = "7- Packing" THEN "Completed"
    ELSE IF row.due = NaN THEN "Unknown"
    ELSE "Normal"

\* Status_Calc of one row, with date.today() = today
calculate_status(row, today) ==
    IF row.stage = "8- Shipped" THEN "Shipped"
    ELSE IF row.stage = "7- Packing" THEN "Completed"
    ELSE IF row.due = NaN THEN "Unknown"
    ELSE LET days_left == row.due[1] - today
         IN  IF days_left < 0 THEN "OVERDUE"
             ELSE IF days_left <= 3 THEN "CRITICAL"
             ELSE "Normal"

\* a variant that counts packed batches as shipped
HistoryEntry_packed_as_shipped(df, order_id) ==
    LET order_data == OrderRows(df, order_id)
        total_items == Len(order_data)
        shipped == Len(SelectSeq(order_data, LAMBDA r : r.stage \in { "7- Packing", "8- Shipped" }))
    IN  IF shipped = total_items
        THEN [ id |-> order_id, rank |-> 3, label |-> "SHIPPED" ]
        ELSE [ id |-> order_id, rank |-> 2, label |-> "IN PROGRESS" ]

\* History: rank and label of one order
HistoryEntry(df, order_id) ==
    LET order_data == OrderRows(df, order_id)
        total_items == Len(order_data)
        shipped == Len(SelectSeq(order_data, LAMBDA r : r.stage = "8- Shipped"))
        packed == Len(SelectSeq(order_data, LAMBDA r : r.stage = "7- Packing"))
    IN  IF shipped = total_items
        THEN [ id |-> order_id, rank |-> 3, label |-> "SHIPPED" ]
        ELSE IF shipped + packed = total_items
        THEN [ id |-> order_id, rank |-> 1, label |-> "COMPLETED" ]
        ELSE [ id |-> order_id, rank |-> 2, label |-> "IN PROGRESS" ]

\* a variant that leaves the list as it was built
SortByRank_unsorted(list) == list

\* history_list.sort(key=lambda x: x["rank"]): a stable sort on ranks 1..3
SortByRank(list) ==
    SelectSeq(list, LAMBDA x : x.rank = 1)
    \o SelectSeq(list, LAMBDA x : x.rank = 2)
    \o SelectSeq(list, LAMBDA x : x.rank = 3)

\* for order_id in df['Order ID'].unique(): ...; history_list.sort(...)
history_list(df) ==
    LET unique_orders == Unique([ i \in 1..Len(df) |-> df[i].order ])
    IN  SortByRank([ i \in 1..Len(unique_orders) |-> HistoryEntry(df, unique_orders[i]) ])

\* a ledger row as load_data returns it
LedgerRow(uid, order_id, stage, due) ==
    [ uid |-> uid, order |-> order_id, client |-> "Nike", due |-> due,
      priority |-> "Normal", product |-> "Hoodie", color |-> "Std",
      article |-> "HD-X", size |-> "M", qty |-> << 1 >>, stage |-> stage, notes |-> "" ]

DayInputs == 0..MaxDay

StatusInputs ==
    { [ fn |-> "calculate_status", arg |-> << LedgerRow(1, <<"7">>, s, d) >>,
        today |-> t, done |-> FALSE, out |-> <<>> ] :
        s \in StageSet, d \in {NaN} \cup { << x >> : x \in DayInputs }, t \in DayInputs }

HistoryRows ==
    { LedgerRow(0, o, s, NaN) : o \in { <<"7">>, <<"8">>, <<"9">> }, s \in StageInputs }

HistoryInputs ==
    { [ fn |-> "history", arg |-> df, today |-> 0, done |-> FALSE, out |-> <<>> ] :
        df \in UNION { [ 1..n -> HistoryRows ] : n \in 1..MaxHistRows } }

\* pd.Timestamp.max, later than every date
Timestamp_max == 1000

\* Series.min() of the due dates, NaT skipped; NaT when there is none
MinDue(rows) ==
    LET ds == { rows[i].due[1] : i \in { h \in 1..Len(rows) : rows[h].due # NaN } }
    IN  IF ds = {} THEN NaN ELSE << CHOOSE d \in ds : \A e \in ds : d <= e >>

\* active_only.groupby('Order ID')['Due Date'].min().fillna(pd.Timestamp.max)
order_dates(df_data, order_id) ==
    LET m == MinDue(OrderRows(SelectSeq(df_data, IsActive), order_id))
    IN  IF m = NaN THEN Timestamp_max ELSE m[1]

\* the lists get_sorted_active_orders(df_data) can return: the active orders by
\* ascending order_dates (sort_values keeps no promise for equal dates)
get_sorted_active_orders(df_data) ==
    LET ids == OrdersOf(SelectSeq(df_data, IsActive))
    IN  { l \in [ 1..Cardinality(ids) -> ids ] :
            /\ \A i, j \in 1..Cardinality(ids) : l[i] = l[j] => i = j
            /\ \A i, j \in 1..Cardinality(ids) :
                  i < j => order_dates(df_data, l[i]) <= order_dates(df_data, l[j]) }

\* All Active Orders Overview: o_data = df[df['Order ID'] == oid];
\* dates = o_data['Due Date'].dropna(); min_date = dates.min()
overview_data(df, sorted_orders) ==
    [ i \in 1..Len(sorted_orders) |->
        [ id |-> sorted_orders[i], deadline |-> MinDue(OrderRows(df, sorted_orders[i])) ] ]

\* Order Dashboard, an order selected: min(valid_dates) over active_only, or
\* over the whole order when active_only is empty
next_deadline(order_data) ==
    LET active_only == SelectSeq(order_data, IsActive)
    IN  IF active_only = <<>> THEN MinDue(order_data) ELSE MinDue(active_only)

DeadlineRows ==
    { LedgerRow(0, o, s, d) : o \in { <<"7">>, <<"8">> },
                              s \in { STAGES[3], STAGES[8] },
                              d \in { NaN, << 1 >>, << 2 >> } }

DeadlineInputs ==
    { [ fn |-> f, arg |-> df, today |-> 0, done |-> FALSE, out |-> <<>> ] :
        f \in { "overview", "next_deadline" },
        df \in UNION { [ 1..n -> DeadlineRows ] : n \in 1..MaxHistRows } }

InitViews ==
    /\ file = <<>>
    /\ order_draft = <<>>
    /\ nEdits = 0
    /\ last = Outcome("init", "", FALSE, NoArgs)
    /\ view \in StatusInputs \cup HistoryInputs \cup DeadlineInputs
    /\ runs = NoRuns

\* Dashboard: df['Status_Calc'] = df.apply(calculate_status, axis=1)
Classify ==
    /\ view.fn = "calculate_status"
    /\ ~ view.done
    /\ view' = [ view EXCEPT !.done = TRUE,
                             !.out = << calculate_status(view.arg[1], view.today) >> ]
    /\ UNCHANGED << file, order_draft, nEdits, last, runs >>

\* History page
ShowHistory ==
    /\ view.fn = "history"
    /\ ~ view.done
    /\ view' = [ view EXCEPT !.done = TRUE, !.out = history_list(view.arg) ]
    /\ UNCHANGED << file, order_draft, nEdits, last, runs >>

\* Order Dashboard with no order selected
ShowOverview ==
    /\ view.fn = "overview"
    /\ ~ view.done
    /\ \E sorted_orders \in get_sorted_active_orders(view.arg) :
          view' = [ view EXCEPT !.done = TRUE,
                                !.out = overview_data(view.arg, sorted_orders) ]
    /\ UNCHANGED << file, order_draft, nEdits, last, runs >>

\* Order Dashboard with one of the orders of the selectbox selected
ShowNextDeadline ==
    /\ view.fn = "next_deadline"
    /\ ~ view.done
    /\ \E selected_order \in OrdersOf(SelectSeq(view.arg, IsActive)) :
          view' = [ view EXCEPT
                      !.done = TRUE,
                      !.out = << [ id |-> selected_order,
                                   deadline |-> next_deadline(OrderRows(view.arg, selected_order)) ] >> ]
    /\ UNCHANGED << file, order_draft, nEdits, last, runs >>

NextViews == Classify \/ ShowHistory \/ ShowOverview \/ ShowNextDeadline

SpecViews == InitViews /\ [][NextViews]_vars

LoadedOrders == { StripDotZero(o) : o \in OrderIdInputs }

Next ==
    \/ \E o \in OrderIdInputs, p \in ProductInputs, c \in ColorInputs,
          a \in ArticleInputs, d \in DueInputs, inp \in SizeInputs :
          AddToList(o, p, c, a, d, inp)
    \/ \E o \in OrderIdInputs, cl \in ClientInputs, e \in DraftEdits(order_draft) :
          SaveFinalOrder(o, cl, e)
    \/ \E o \in LoadedOrders, t \in 1..MaxBatches, i \in 1..MaxBatches :
          /\ MoveOffered(load_data(file), o, t, i)
          /\ \E k \in 1..MaxQty, s \in StageInputs : Move(o, t, i, k, s)
    \/ \E o \in LoadedOrders, t \in 1..MaxBatches :
          /\ BulkOffered(load_data(file), o, t)
          /\ \E s \in StageInputs : BulkMove(o, t, s)
    \/ \E o \in LoadedOrders :
          \E e \in ManageEdits(OrderRows(load_data(file), o)) :
             ManageSave(o, e)

Spec == Init /\ [][Next]_vars

\* a file written when the first stage was still called "1- Material"
InitLegacy ==
    /\ file = << [ LedgerRow(1, <<"7">>, "1- Material", << 14 >>) EXCEPT !.qty = << MaxQty >> ] >>
    /\ order_draft = <<>>
    /\ nEdits = 0
    /\ last = Outcome("init", "", FALSE, NoArgs)
    /\ view = NoView
    /\ runs = NoRuns

SpecLegacy == InitLegacy /\ [][Next]_vars

\* ------------------------------------------------------------ failed loads
\* except Exception as e: return pd.DataFrame(columns=[...]): what load_data
\* returns when read_csv (or the cleaning after it) raises
load_data_failed == <<>>

\* a script run whose load_data() failed, with SAVE FINAL ORDER pressed
SaveFinalOrderLoadFailed(order_id, client, edited_draft_df) ==
    LET df == load_data_failed
        new_rows == NewRows(edited_draft_df, order_id, client, UidsOf(df))
        args == [ NoArgs EXCEPT !.order = order_id, !.lines = edited_draft_df ]
    IN  /\ file # <<>>
        /\ order_draft # <<>>
        /\ ~ is_duplicate(df, order_id)
        /\ order_id # <<>>
        /\ edited_draft_df # <<>>
        /\ Len(new_rows) > 0
        /\ file' = df \o new_rows
        /\ order_draft' = <<>>
        /\ last' = Outcome("save", "saved", TRUE, args)
        /\ UNCHANGED << nEdits, view, runs >>

NextLoadFails ==
    \/ \E o \in OrderIdInputs, p \in ProductInputs, c \in ColorInputs,
          a \in ArticleInputs, d \in DueInputs, inp \in SizeInputs :
          AddToList(o, p, c, a, d, inp)
    \/ \E o \in OrderIdInputs, cl \in ClientInputs, e \in DraftEdits(order_draft) :
          SaveFinalOrder(o, cl, e)
    \/ \E o \in OrderIdInputs, cl \in ClientInputs, e \in DraftEdits(order_draft) :
          SaveFinalOrderLoadFailed(o, cl, e)

SpecLoadFails == Init /\ [][NextLoadFails]_vars

\* ------------------------------------------------- runs of several sessions
\* Each browser session runs the script in a thread of its own: df =
\* load_data() (line 85) and the handler's save_data(df) are separate steps,
\* with no lock and no version check between them.

\* a variant that reads the file again when the handler starts
RunTable_reloaded(s) == load_data(file)

\* the df a run's handler changes and saves: the one it loaded at line 85
RunTable(s) == runs[s].df

SavesSoFar == Cardinality({ s \in Sessions : runs[s].at > 0 })

\* df = load_data()
RunLoad(s) ==
    /\ runs[s].pc = "idle"
    /\ runs' = [ runs EXCEPT ![s].pc = "loaded", ![s].df = load_data(file) ]
    /\ UNCHANGED << file, order_draft, nEdits, last, view >>

RunEnds(s, op, uid, stage, order_id, success) ==
    runs' = [ runs EXCEPT ![s].pc = "done", ![s].op = op, ![s].uid = uid,
                          ![s].stage = stage, ![s].order = order_id,
                          ![s].success = success,
                          ![s].at = IF success THEN SavesSoFar + 1 ELSE 0 ]

\* the Move handler of a run, the whole quantity moved
RunMove(s, selected_order, tab, pos, new_stage) ==
    LET df == RunTable(s)
        order_data == OrderRows(df, selected_order)
        tabs == ProductTabs(order_data)
        rows == active_prod_df(order_data, tabs[tab])
        row == rows[pos]
    IN  /\ runs[s].pc = "loaded"
        /\ MoveOffered(df, selected_order, tab, pos)
        /\ IF MoveBlocked(new_stage, CurrIdx(row.stage)) \/ MoveSameStage(new_stage, row)
           THEN /\ UNCHANGED file
                /\ RunEnds(s, "move", row.uid, new_stage, selected_order, FALSE)
           ELSE /\ file' = SetStage(df, {row.uid}, new_stage)
                /\ RunEnds(s, "move", row.uid, new_stage, selected_order, TRUE)
        /\ UNCHANGED << order_draft, nEdits, last, view >>

\* the draft of the session that creates an order
RunDraft == << DraftLine("Hoodie", "Std", "HD-X", "M", 1, 14) >>

\* the SAVE FINAL ORDER handler of a run
RunCreate(s, order_id) ==
    LET df == RunTable(s)
        new_rows == NewRows(RunDraft, order_id, "Nike", UidsOf(df))
    IN  /\ runs[s].pc = "loaded"
        /\ IF is_duplicate(df, order_id)
           THEN /\ UNCHANGED file
                /\ RunEnds(s, "create", 0, "", order_id, FALSE)
           ELSE /\ file' = df \o new_rows
                /\ RunEnds(s, "create", 0, "", order_id, TRUE)
        /\ UNCHANGED << order_draft, nEdits, last, view >>

InitRuns ==
    /\ file = << LedgerRow(1, <<"7">>, STAGES[1], << 14 >>),
                 LedgerRow(2, <<"8">>, STAGES[1], << 14 >>) >>
    /\ order_draft = <<>>
    /\ nEdits = 0
    /\ last = Outcome("init", "", FALSE, NoArgs)
    /\ view = NoView
    /\ runs = NoRuns

NextRuns ==
    \E s \in Sessions :
        \/ RunLoad(s)
        \/ \E o \in { <<"7">>, <<"8">>, <<"9">> }, new_stage \in StageInputs :
              RunMove(s, o, 1, 1, new_stage)
        \/ RunCreate(s, <<"9">>)

SpecRuns == InitRuns /\ [][NextRuns]_vars

\* ------------------------------------------------------------------ claims
\* the table the handler of a step loaded, and the table it ended with
Loaded == load_data(file)
After == IF last'.saved THEN file' ELSE load_data(file)

\* a step in which the handler `op` ran
RanOp(op) == last'.op = op /\ vars' # vars

HasUid(df, uid) == \E i \in 1..Len(df) : df[i].uid = uid
RowOf(df, uid) == df[CHOOSE i \in 1..Len(df) : df[i].uid = uid]

TupleOf(r) == << r.product, r.color, r.article, r.size >>

SumFor(rows, order_id, tuple) ==
    SumSeq([ i \in 1..Len(rows) |->
               IF rows[i].order = order_id /\ TupleOf(rows[i]) = tuple
               THEN to_numeric(rows[i].qty) ELSE 0 ])

KeysOf(rows) == { << rows[i].order, TupleOf(rows[i]) >> : i \in 1..Len(rows) }

\* C1: a Move of k pieces, 0 < k < q, of a batch B (quantity q, stage s, not
\* Shipped) to a stage t after s leaves one batch more: B still at s with q - k,
\* every other batch as it was, and at the end a batch with an id no batch had,
\* stage t, quantity k and B's other fields; the two quantities sum to q.
C1_PartialMoveSplits ==
    [][ (/\ RanOp("move")
         /\ HasUid(Loaded, last'.uid)
         /\ 0 < last'.qty
         /\ last'.qty < to_numeric(RowOf(Loaded, last'.uid).qty)
         /\ RowOf(Loaded, last'.uid).stage # "8- Shipped"
         /\ StageIndex(last'.stage) > StageIndex(RowOf(Loaded, last'.uid).stage))
        => LET B == RowOf(Loaded, last'.uid)
               q == to_numeric(B.qty)
               k == last'.qty
               n == Len(Loaded)
           IN  /\ last'.result = "split"
               /\ last'.saved
               /\ Len(file') = n + 1
               /\ \A j \in 1..n :
                     file'[j] = IF Loaded[j].uid = B.uid
                                THEN [B EXCEPT !.qty = << q - k >>]
                                ELSE Loaded[j]
               /\ file'[n + 1].uid \notin UidsOf(Loaded)
               /\ file'[n + 1] = [B EXCEPT !.uid = file'[n + 1].uid,
                                           !.qty = << k >>,
                                           !.stage = last'.stage]
               /\ to_numeric(RowOf(file', B.uid).qty) + to_numeric(file'[n + 1].qty) = q
      ]_vars

C1_Witness ==
    /\ last.op = "move"
    /\ last.result = "split"
    /\ \E i, j \in 1..Len(file) :
          /\ file[i].uid = last.uid
          /\ j = Len(file)
          /\ file[j].stage = last.stage
          /\ file[j].qty = << last.qty >>
          /\ file[i].stage # file[j].stage

\* C2: under Move no batch's stage ordinal decreases, and a Move whose target
\* stage has a lower ordinal than the batch's stage is blocked: nothing is
\* saved and the file is as it was.
C2_MoveNeverGoesBack ==
    [][ RanOp("move")
        => /\ \A i \in 1..Len(Loaded) : \A j \in 1..Len(After) :
                 After[j].uid = Loaded[i].uid
                 => CurrIdx(After[j].stage) >= CurrIdx(Loaded[i].stage)
           /\ (/\ HasUid(Loaded, last'.uid)
               /\ StageIndex(last'.stage) < CurrIdx(RowOf(Loaded, last'.uid).stage))
              => (last'.result = "blocked" /\ ~ last'.saved /\ file' = file)
      ]_vars

C2_Witness ==
    /\ last.op = "move"
    /\ last.result = "blocked"
    /\ HasUid(load_data(file), last.uid)
    /\ StageIndex(last.stage) < StageIndex(RowOf(load_data(file), last.uid).stage)

\* C3: Move ALL never takes a batch back: each selected batch whose stage
\* ordinal is above the target's keeps its stage, each other selected batch
\* ends at the target, and no batch ends at a lower ordinal than it had.
C3_BulkNeverRegresses ==
    [][ RanOp("bulk")
        => /\ Len(file') = Len(Loaded)
           /\ \A i \in 1..Len(Loaded) :
                 /\ CurrIdx(file'[i].stage) >= CurrIdx(Loaded[i].stage)
                 /\ (/\ Loaded[i].order = last'.order
                     /\ Display_Name(Loaded[i]) = last'.line
                     /\ Loaded[i].stage # "8- Shipped")
                    => file'[i].stage =
                          IF CurrIdx(Loaded[i].stage) > StageIndex(last'.stage)
                          THEN Loaded[i].stage
                          ELSE last'.stage
      ]_vars

\* C4: a Move whose target is the batch's own stage, for any quantity asked
\* for (a partial one too), changes no batch, adds none and saves nothing,
\* and is answered with a toast, not with the error of a blocked move.
C4_SameStageMoveIsNoOp ==
    [][ (/\ RanOp("move")
         /\ HasUid(Loaded, last'.uid)
         /\ last'.stage = RowOf(Loaded, last'.uid).stage)
        => (last'.result = "toast" /\ ~ last'.saved /\ file' = file)
      ]_vars

C4_Witness ==
    /\ last.op = "move"
    /\ last.result = "toast"
    /\ HasUid(load_data(file), last.uid)
    /\ last.qty < to_numeric(RowOf(load_data(file), last.uid).qty)
    /\ last.stage = RowOf(load_data(file), last.uid).stage

\* C5: when the order id entered is the order id of a batch of the loaded
\* ledger, neither Add to List nor SAVE FINAL ORDER does anything: the draft,
\* the ledger and the file stay as they are and the user is told so, also when
\* the draft was filled under another id before.
C5_DuplicateOrderIdStops ==
    [][ (/\ RanOp("add") \/ RanOp("save")
         /\ \E i \in 1..Len(Loaded) : Loaded[i].order = last'.order)
        => /\ last'.result \in { "cannot_add", "cannot_save" }
           /\ ~ last'.saved
           /\ file' = file
           /\ order_draft' = order_draft
      ]_vars

C5_Witness ==
    /\ last.op = "save"
    /\ last.result = "cannot_save"
    /\ order_draft # <<>>
    /\ \E i \in 1..Len(load_data(file)) : load_data(file)[i].order = last.order

CountsAsLine(line) == line.product # "" /\ line.qty # NaN /\ line.qty[1] > 0

\* C6: SAVE FINAL ORDER under an unused, non-empty order id appends one batch
\* for each draft line with a product name and a quantity > 0, and none for
\* the other lines: first stage, priority Normal, the order id and client
\* entered, the line's product, color, article, size, quantity and due date;
\* the batches there before are unchanged and the draft is emptied.
C6_CreateOrderEffect ==
    [][ (RanOp("save") /\ last'.result = "saved")
        => LET good == SelectSeq(last'.lines, CountsAsLine)
               n == Len(Loaded)
           IN  /\ Len(file') = n + Len(good)
               /\ SubSeq(file', 1, n) = Loaded
               /\ order_draft' = <<>>
               /\ \A j \in 1..Len(good) :
                     LET b == file'[n + j]
                     IN  /\ b.uid \notin UidsOf(Loaded)
                         /\ \A h \in 1..Len(good) : h # j => file'[n + h].uid # b.uid
                         /\ b.order = last'.order
                         /\ b.client \in ClientInputs
                         /\ b.stage = STAGES[1]
                         /\ b.priority = "Normal"
                         /\ TupleOf(b) = TupleOf(good[j])
                         /\ b.qty = good[j].qty
                         /\ b.due = good[j].due
      ]_vars

\* C7: every batch of the persisted ledger has a quantity > 0.
C7_QuantityPositive ==
    \A i \in 1..Len(file) : file[i].qty # NaN /\ file[i].qty[1] > 0

\* C8: for each order id and (product, color, article, size) the quantities
\* of its batches sum to what was entered for it when the order was saved,
\* and Move and Move ALL leave every such sum as it was.
C8_LineTotalsConserved ==
    [][ /\ (RanOp("move") \/ RanOp("bulk"))
           => \A key \in KeysOf(Loaded) \cup KeysOf(After) :
                 SumFor(After, key[1], key[2]) = SumFor(Loaded, key[1], key[2])
        /\ (RanOp("save") /\ last'.result = "saved")
           => \A l \in 1..Len(last'.lines) :
                 last'.lines[l].product # ""
                 => SumFor(file', last'.order, TupleOf(last'.lines[l]))
                    = SumSeq([ h \in 1..Len(last'.lines) |->
                                 IF TupleOf(last'.lines[h]) = TupleOf(last'.lines[l])
                                 THEN to_numeric(last'.lines[h].qty) ELSE 0 ])
      ]_vars

C8_Witness ==
    /\ last.op = "bulk"
    /\ \E i, j \in 1..Len(file) :
          /\ i # j
          /\ file[i].order = file[j].order
          /\ TupleOf(file[i]) = TupleOf(file[j])
          /\ file[i].stage # file[j].stage

\* C9: calculate_status gives Shipped at stage Shipped, else Completed at
\* Packing, else Unknown without a due date, else OVERDUE when due - today < 0,
\* else CRITICAL when due - today <= 3, else Normal; so a Shipped or Packing
\* batch is never OVERDUE or CRITICAL, whatever its due date.
C9_StatusClassifier ==
    (view.fn = "calculate_status" /\ view.done)
    => LET row == view.arg[1]
           out == view.out[1]
           staged == row.stage \in { "8- Shipped", "7- Packing" }
           dated == ~ staged /\ row.due # NaN
       IN  /\ row.stage = "8- Shipped" => out = "Shipped"
           /\ row.stage = "7- Packing" => out = "Completed"
           /\ (~ staged /\ row.due = NaN) => out = "Unknown"
           /\ (dated /\ row.due[1] - view.today < 0) => out = "OVERDUE"
           /\ (dated /\ row.due[1] - view.today \in 0..3) => out = "CRITICAL"
           /\ (dated /\ row.due[1] - view.today > 3) => out = "Normal"
           /\ staged => out \notin { "OVERDUE", "CRITICAL" }

C9_Witness ==
    /\ view.fn = "calculate_status"
    /\ view.done
    /\ view.arg[1].stage = "8- Shipped"
    /\ view.arg[1].due # NaN
    /\ view.arg[1].due[1] < view.today
    /\ view.out = << "Shipped" >>

StagesOfOrder(df, order_id) ==
    { df[i].stage : i \in { h \in 1..Len(df) : df[h].order = order_id } }

\* C10: in History every order with a batch is listed once, as SHIPPED iff all
\* its batches are at Shipped, as COMPLETED iff all are at Packing or Shipped
\* and one is not at Shipped, and as IN PROGRESS otherwise.
C10_OrderLevelStatus ==
    (view.fn = "history" /\ view.done)
    => /\ \A i \in 1..Len(view.arg) :
             \E h \in 1..Len(view.out) : view.out[h].id = view.arg[i].order
       /\ \A h, g \in 1..Len(view.out) : view.out[h].id = view.out[g].id => h = g
       /\ \A h \in 1..Len(view.out) :
             LET st == StagesOfOrder(view.arg, view.out[h].id)
                 label == view.out[h].label
             IN  /\ st # {}
                 /\ label = "SHIPPED" <=> st = { "8- Shipped" }
                 /\ label = "COMPLETED"
                    <=> (st \subseteq { "7- Packing", "8- Shipped" } /\ st # { "8- Shipped" })
                 /\ label = "IN PROGRESS" <=> ~ (st \subseteq { "7- Packing", "8- Shipped" })

C10_Witness ==
    /\ view.fn = "history"
    /\ view.done
    /\ Len(view.arg) = 3
    /\ \A i \in 1..3 : view.arg[i].order = <<"7">>
    /\ view.arg[1].stage = "7- Packing"
    /\ view.arg[2].stage = "7- Packing"
    /\ view.arg[3].stage = "8- Shipped"
    /\ \E h \in 1..Len(view.out) : view.out[h].id = <<"7">> /\ view.out[h].label = "COMPLETED"


\* C11: in every ledger reached, for every order, with target the sum of its
\* batches' quantities and completed the sum over its batches at Packing or
\* Shipped: 0 <= completed <= target, 0 <= pending <= target, completed +
\* pending = target, and the progress fraction lies in [0, 1].
C11_ProgressBounds ==
    \A o \in OrdersOf(load_data(file)) :
        LET m == ProgressMetrics(OrderRows(load_data(file), o))
        IN  /\ 0 <= m.completed_qty /\ m.completed_qty <= m.total_target
            /\ 0 <= m.pending_qty /\ m.pending_qty <= m.total_target
            /\ m.completed_qty + m.pending_qty = m.total_target
            /\ 0 <= m.prog_pct[1] /\ m.prog_pct[1] <= m.prog_pct[2]

\* C12: a saved order never has two line items with the same product, color
\* and article: whenever SAVE FINAL ORDER inserts batches, no two of them
\* carry the same product, color, article and size (one line item has one
\* batch for each of its sizes), whether the lines were added so or edited so.
C12_NoDuplicateLineItems ==
    [][ (RanOp("save") /\ last'.result = "saved")
        => \A i, j \in (Len(Loaded) + 1)..Len(file') :
              TupleOf(file'[i]) = TupleOf(file'[j]) => i = j
      ]_vars

\* the least due date of the order's batches that are not Shipped
NextDeadlineOf(df, order_id) == MinDue(OrderRows(SelectSeq(df, IsActive), order_id))

\* C13: the next deadline shown for an order is the least due date of its
\* batches that are not Shipped (a Shipped batch's date is never used), and
\* the overview lists the active orders by ascending next deadline, the
\* orders without one after all the others.
C13_NextDeadlineAndRanking ==
    (view.fn \in { "overview", "next_deadline" } /\ view.done)
    => /\ \A h \in 1..Len(view.out) :
             view.out[h].deadline = NextDeadlineOf(view.arg, view.out[h].id)
       /\ \A h, g \in 1..Len(view.out) :
             h < g => LET a == NextDeadlineOf(view.arg, view.out[h].id)
                          b == NextDeadlineOf(view.arg, view.out[g].id)
                      IN  /\ a = NaN => b = NaN
                          /\ (a # NaN /\ b # NaN) => a[1] <= b[1]

\* 1 Completed, 2 InProgress, 3 Shipped, from the stages of the order's batches
StatusRankOf(df, order_id) ==
    LET st == StagesOfOrder(df, order_id)
    IN  IF st = { "8- Shipped" } THEN 3
        ELSE IF st \subseteq { "7- Packing", "8- Shipped" } THEN 1
        ELSE 2

\* C14: in the History listing every Completed order comes before every
\* InProgress order, and every InProgress order before every Shipped order.
C14_HistoryOrdering ==
    (view.fn = "history" /\ view.done)
    => \A h, g \in 1..Len(view.out) :
          StatusRankOf(view.arg, view.out[h].id) < StatusRankOf(view.arg, view.out[g].id)
          => h < g

C14_Witness ==
    /\ view.fn = "history"
    /\ view.done
    /\ Len(view.arg) = 3
    /\ view.arg[1].order = <<"9">> /\ view.arg[1].stage = "8- Shipped"
    /\ view.arg[2].order = <<"8">> /\ view.arg[2].stage = "3- Cutting"
    /\ view.arg[3].order = <<"7">> /\ view.arg[3].stage = "7- Packing"
    /\ Len(view.out) = 3
    /\ view.out[1].id = <<"7">> /\ view.out[1].label = "COMPLETED"
    /\ view.out[2].id = <<"8">> /\ view.out[2].label = "IN PROGRESS"
    /\ view.out[3].id = <<"9">> /\ view.out[3].label = "SHIPPED"

\* C15: in every ledger reached by loading, creating orders, Move, Move ALL
\* and Manage Data edits, every batch's stage is one of the 8 stages.
C15_StageDomain ==
    \A i \in 1..Len(load_data(file)) : load_data(file)[i].stage \in StageSet

C15_Witness ==
    /\ last.op = "manage"
    /\ last.saved
    /\ Len(file) = 2
    /\ \E i, j \in 1..2 :
          /\ file[i].uid = 1 /\ file[i].stage = "1- In Pipeline"
          /\ file[j].uid # 1 /\ file[j].stage = "7- Packing"

\* what a run that reported success did is in the table
HasEffect(table, run) ==
    IF run.op = "move"
    THEN \E i \in 1..Len(table) : table[i].uid = run.uid /\ table[i].stage = run.stage
    ELSE \E i \in 1..Len(table) : table[i].order = run.order

\* C16: two runs a and b that both report success, on different batches (or
\* a Move and a created order), b having loaded the ledger before a saved and
\* saved after it: the file b leaves lacks what a did.
C16_LostUpdate ==
    \A a, b \in Sessions :
        (/\ a # b
         /\ runs[a].success /\ runs[b].success
         /\ runs[a].at < runs[b].at
         /\ runs[b].at = SavesSoFar
         /\ runs[a].op # runs[b].op \/ (runs[a].op = "move" /\ runs[a].uid # runs[b].uid)
         /\ ~ HasEffect(runs[b].df, runs[a]))
        => ~ HasEffect(file, runs[a])

C16_Witness ==
    /\ runs[1].success /\ runs[2].success
    /\ runs[1].op = "move" /\ runs[2].op = "create"
    /\ runs[1].at = 1 /\ runs[2].at = 2
    /\ HasEffect(file, runs[2])
    /\ ~ HasEffect(file, runs[1])

\* C17: a load that fails is never taken for an empty ledger: whenever SAVE
\* FINAL ORDER saves, every batch that was in the file is still in it.
C17_FailedLoadNotEmptyLedger ==
    [][ (RanOp("save") /\ last'.saved)
        => \A i \in 1..Len(file) : \E j \in 1..Len(file') : file'[j] = LoadRow(file[i])
      ]_vars

\* the batches Move ALL is pressed for: the order's batches of the tab's
\* product line that are not Shipped
BulkSelected(r) ==
    /\ r.order = last'.order
    /\ Display_Name(r) = last'.line
    /\ r.stage # "8- Shipped"

\* C18: Move ALL changes nothing but the stage of the selected batches: the
\* number of batches, every batch's id and quantity and every other field of
\* it stay, and a batch outside the selection (a Shipped batch of the line, a
\* batch of another line or order) stays as it is.
C18_BulkMoveFrame ==
    [][ RanOp("bulk")
        => /\ Len(file') = Len(Loaded)
           /\ \A i \in 1..Len(Loaded) :
                 /\ [file'[i] EXCEPT !.stage = Loaded[i].stage] = Loaded[i]
                 /\ ~ BulkSelected(Loaded[i]) => file'[i] = Loaded[i]
      ]_vars

C18_Witness ==
    /\ last.op = "bulk"
    /\ last.stage # "8- Shipped"
    /\ \E i, j \in 1..Len(file) :
          /\ file[i].order = last.order /\ Display_Name(file[i]) = last.line
          /\ file[j].order = last.order /\ Display_Name(file[j]) = last.line
          /\ file[i].stage = "8- Shipped"
          /\ file[j].stage = last.stage

\* C19: a batch at Shipped is left as it is by every Move and every Move ALL:
\* its stage and quantity stay, it is not split, and it is not the batch a
\* Move acts on.
C19_ShippedAbsorbing ==
    [][ (RanOp("move") \/ RanOp("bulk"))
        => /\ Len(After) >= Len(Loaded)
           /\ \A i \in 1..Len(Loaded) :
                 Loaded[i].stage = "8- Shipped"
                 => /\ After[i] = Loaded[i]
                    /\ (RanOp("move") => last'.uid # Loaded[i].uid)
      ]_vars

C19_Witness ==
    /\ last.op = "move"
    /\ last.result = "moved"
    /\ last.stage = "7- Packing"
    /\ \E i, j \in 1..Len(file) :
          /\ file[i].stage = "8- Shipped"
          /\ file[i].order = last.order
          /\ file[j].uid = last.uid
          /\ file[j].stage = "7- Packing"
          /\ TupleOf(file[i]) = TupleOf(file[j])
====
